---------------------------- MODULE Spec2Model ----------------------------
(***************************************************************************)
(* A model of GL840.py, the driver of one Graphtec GL840 data logger:      *)
(*   - the device session (class Graphtec: __init__, connect,              *)
(*     identify_device, close) as a state machine over the session fields  *)
(*     and the set of open VISA resources           (specification Spec);  *)
(*   - the reading scraper append_graphtec_readings, one step per poll,    *)
(*     against a status page that the device keeps updating                *)
(*                                            (specification SpecScrape);  *)
(*   - the two projections add_channel_data_to_df and                      *)
(*     add_channel_data_to_dict, applied to accumulated poll batches       *)
(*                                           (specification SpecReshape). *)
(* Texts are sequences of one-character strings, so that substring tests,  *)
(* space removal, concatenation and number parsing are computed.           *)
(***************************************************************************)
EXTENDS Integers, Sequences, FiniteSets, TLC

VARIABLES
    \* ---- the device session (GL840.py:10-16) ----
    phase,           \* "new": inside __init__ before line 16; "live": the
                     \* caller holds the object; "dead": __init__ raised
    _my_instrument,  \* the PyVISA handle: 0 is None, n > 0 is resource n
    _ident,          \* the last identity reply stored by identify_device
    _name_string,    \* the expected name substring
    connected,       \* the connected flag (assigned at lines 16 and 69)
    opened,          \* the VISA resources opened and not yet closed
    nOpened,         \* how many resources open_resource has created
    call,            \* the last call: its inputs, pre-state and outcome
    \* ---- the reading scraper (GL840.py:74-114) ----
    page,            \* the status page the device serves right now
    spc,             \* position inside append_graphtec_readings
    num,             \* its argument
    response,        \* the HTTP response it holds
    fetches,         \* HTTP GETs it has issued during the current call
    i,               \* the loop counter of line 88
    data_list,       \* the batches accumulated so far
    served,          \* per poll, the page the device served at that poll
    \* ---- the reshaper (GL840.py:116-173) ----
    layout,          \* the device's channels: (label, unit) per channel
    acc,             \* the accumulated poll batches handed to a projection
    result           \* what the last projection call returned

sessionVars == <<phase, _my_instrument, _ident, _name_string, connected,
                 opened, nOpened, call>>
scrapeVars == <<page, spc, num, response, fetches, i, data_list, served>>
reshapeVars == <<layout, acc, result>>
vars == <<sessionVars, scrapeVars, reshapeVars>>

-----------------------------------------------------------------------------
(* Bounds of the model.                                                    *)

\* longest identity reply the instrument sends
MaxIdentLen == 3
\* longest expected name
MaxNameLen == 2
\* how many resources open_resource may create in one run
MaxOpens == 2

\* the characters identity strings and names are made of
IdentChars == {"G", "X"}

RECURSIVE TextsUpTo(_, _)
\* all texts over the characters cs of length at most n
TextsUpTo(cs, n) ==
    IF n = 0 THEN {<<>>}
    ELSE LET shorter == TextsUpTo(cs, n - 1)
         IN  shorter \cup {Append(t, c) : t \in shorter, c \in cs}

\* name_string arguments of the constructor ("GRAPHTEC" by default)
Names == TextsUpTo(IdentChars, MaxNameLen) \ {<<>>}

-----------------------------------------------------------------------------
(* Values of the session fields and outcomes of the library calls.         *)

None == 0

IdentNone == [kind |-> "None", text |-> <<>>]
Str(t) == [kind |-> "str", text |-> t]
\* a reply that is not a string: `in` raises TypeError on it
NonString == [kind |-> "other", text |-> <<>>]
\* query("*IDN?") raising pyvisa.errors.VisaIOError
QueryIOError == [kind |-> "VisaIOError", text |-> <<>>]
\* no query was issued
NoReply == [kind |-> "none", text |-> <<>>]

\* what query("*IDN?") can produce
Replies ==
    {Str(t) : t \in TextsUpTo(IdentChars, MaxIdentLen)}
        \cup {NonString, QueryIOError}

\* what ResourceManager() / open_resource can produce: the resource, an
\* OSError, or a pyvisa.errors.VisaIOError (lines 37-44: raised when the
\* equipment is not there the first time)
OpenOutcomes == {"ok", "OSError", "VisaIOError"}

\* the session fields the methods read and write, as one value
Session ==
    [inst |-> _my_instrument, ident |-> _ident, connected |-> connected,
     opened |-> opened]

\* `self._name_string in self._ident` for two strings (line 65), mutated:
\* a prefix test
ContainsAsPrefix(name, text) ==
    /\ Len(name) <= Len(text)
    /\ SubSeq(text, 1, Len(name)) = name

\* `self._name_string in self._ident` for two strings (line 65)
Contains(name, text) ==
    \E k \in 0..(Len(text) - Len(name)) :
        SubSeq(text, k + 1, k + Len(name)) = name

\* close() mutated: a no-op on a null handle
closeIdempotent(s) ==
    IF s.inst = None
    THEN [s |-> s, ret |-> "None"]
    ELSE [s |-> [s EXCEPT !.opened = s.opened \ {s.inst}, !.inst = None],
          ret |-> "None"]

\* close(): self._my_instrument.close() raises AttributeError on None and
\* nothing is assigned; otherwise the resource is closed, the handle nulled
close(s) ==
    IF s.inst = None
    THEN [s |-> s, ret |-> "AttributeError"]
    ELSE [s |-> [s EXCEPT !.opened = s.opened \ {s.inst}, !.inst = None],
          ret |-> "None"]

\* the except branch of identify_device (lines 67-72); the handle is not
\* None there, since the query was issued through it
IdentifyFailed(s) ==
    [s |-> [close(s).s EXCEPT !.connected = FALSE], ret |-> "False"]

\* identify_device mutated: the failure branch forgets to close
identify_device_noclose(s, name, reply) ==
    IF s.inst = None
    THEN [s |-> s, ret |-> "AttributeError"]
    ELSE IF reply.kind = "str" /\ Contains(name, reply.text)
    THEN [s |-> [s EXCEPT !.ident = reply], ret |-> "True"]
    ELSE [s |-> [s EXCEPT !.connected = FALSE,
                          !.ident = IF reply.kind = "VisaIOError"
                                    THEN s.ident ELSE reply],
          ret |-> "False"]

\* identify_device(tcpip), given what the query produces
identify_device(s, name, reply) ==
    IF s.inst = None
    THEN \* None.query: AttributeError, not caught at line 67
         [s |-> s, ret |-> "AttributeError"]
    ELSE IF reply.kind = "VisaIOError"
    THEN \* line 63 raised: _ident keeps its old value
         IdentifyFailed(s)
    ELSE LET t == [s EXCEPT !.ident = reply]
         IN  IF reply.kind = "str"
             THEN IF Contains(name, reply.text)
                  THEN [s |-> t, ret |-> "True"]
                  ELSE IdentifyFailed(t)     \* AssertionError
             ELSE IdentifyFailed(t)          \* TypeError

\* connect() mutated: the OSError handler swallows the error as the
\* VisaIOError handler does
connect_swallow_oserror(s, name, outcome, id, reply) ==
    IF outcome \in {"OSError", "VisaIOError"}
    THEN [s |-> s, ret |-> "False"]
    ELSE LET t == [s EXCEPT !.inst = id, !.opened = s.opened \cup {id}]
         IN  identify_device(t, name, reply)

\* connect(), given what open_resource and the query produce; id is the
\* resource open_resource creates
connect(s, name, outcome, id, reply) ==
    IF outcome = "OSError"
    THEN [s |-> s, ret |-> "OSError"]          \* lines 46-48: re-raised
    ELSE IF outcome = "VisaIOError"
    THEN [s |-> s, ret |-> "False"]            \* lines 52-54
    ELSE LET t == [s EXCEPT !.inst = id, !.opened = s.opened \cup {id}]
         IN  identify_device(t, name, reply)   \* line 45

Raised(ret) == ret \in {"OSError", "AttributeError"}

\* the record of a call
Call(op, outcome, reply, before, queried, ret) ==
    [op |-> op, open |-> outcome, reply |-> reply, before |-> before,
     queried |-> queried, ret |-> ret]

\* assign the session fields
SetSession(s) ==
    /\ _my_instrument' = s.inst
    /\ _ident' = s.ident
    /\ connected' = s.connected
    /\ opened' = s.opened

-----------------------------------------------------------------------------
(* The device session.                                                     *)

SessionInit ==
    /\ phase = "new"
    /\ _my_instrument = None
    /\ _ident = IdentNone
    /\ _name_string \in Names
    /\ connected = FALSE      \* not an attribute yet; nothing reads it
    /\ opened = {}
    /\ nOpened = 0
    /\ call = Call("none", "none", NoReply, Session, None, "None")

\* the inputs of one connect: what opening produces and, when a resource
\* is opened, what the query produces
ConnectInputs ==
    {<<o, r>> \in OpenOutcomes \X (Replies \cup {NoReply}) :
        /\ (o = "ok") = (r # NoReply)
        /\ o = "ok" => nOpened < MaxOpens}

\* Graphtec(address, name_string): line 16, self.connected = self.connect()
Construct ==
    /\ phase = "new"
    /\ \E inp \in ConnectInputs :
        LET id == nOpened + 1
            r == connect(Session, _name_string, inp[1], id, inp[2])
        IN  /\ nOpened' = IF inp[1] = "ok" THEN id ELSE nOpened
            /\ call' = Call("construct", inp[1], inp[2], Session,
                            IF inp[1] = "ok" THEN id ELSE None, r.ret)
            /\ IF Raised(r.ret)
               THEN /\ phase' = "dead"
                    /\ SetSession(r.s)
               ELSE /\ phase' = "live"
                    /\ SetSession([r.s EXCEPT !.connected = (r.ret = "True")])
    /\ UNCHANGED <<_name_string, scrapeVars, reshapeVars>>

\* a later graphtec.connect()
Connect ==
    /\ phase = "live"
    /\ \E inp \in ConnectInputs :
        LET id == nOpened + 1
            r == connect(Session, _name_string, inp[1], id, inp[2])
        IN  /\ nOpened' = IF inp[1] = "ok" THEN id ELSE nOpened
            /\ call' = Call("connect", inp[1], inp[2], Session,
                            IF inp[1] = "ok" THEN id ELSE None, r.ret)
            /\ SetSession(r.s)
    /\ UNCHANGED <<phase, _name_string, scrapeVars, reshapeVars>>

\* a later graphtec.identify_device(tcpip)
IdentifyDevice ==
    /\ phase = "live"
    /\ \E reply \in Replies :
        LET r == identify_device(Session, _name_string, reply)
        IN  /\ call' = Call("identify", "none",
                            IF _my_instrument = None THEN NoReply ELSE reply,
                            Session, _my_instrument, r.ret)
            /\ SetSession(r.s)
    /\ UNCHANGED <<phase, _name_string, nOpened, scrapeVars, reshapeVars>>

\* graphtec.close()
Close ==
    /\ phase = "live"
    /\ LET r == close(Session)
       IN  /\ call' = Call("close", "none", NoReply, Session, None, r.ret)
           /\ SetSession(r.s)
    /\ UNCHANGED <<phase, _name_string, nOpened, scrapeVars, reshapeVars>>

-----------------------------------------------------------------------------
(* The reading scraper: append_graphtec_readings (GL840.py:74-114).         *)

\* the largest num a caller passes
MaxNum == 3

\* some texts of the status page
CH1 == <<"C", "H", " ", "1">>
CH2 == <<"C", "H", " ", "2">>
degC == <<"d", "e", "g", "C">>
BURNOUT == <<"B", "U", "R", "N", "O", "U", "T">>
Dashes == <<"-", "-", "-", "-", "-", "-", "-">>
Plus1p5 == <<"+", " ", "1", ".", "5">>
Minus2 == <<"-", "2">>

Whitespace == {" "}

RECURSIVE LStrip(_)
LStrip(t) ==
    IF t # <<>> /\ Head(t) \in Whitespace THEN LStrip(Tail(t)) ELSE t

RECURSIVE RStrip(_)
RStrip(t) ==
    IF t # <<>> /\ t[Len(t)] \in Whitespace
    THEN RStrip(SubSeq(t, 1, Len(t) - 1))
    ELSE t

\* read_tag.get_text(strip=True) on a <b> tag holding one text (line 100)
get_text_strip(t) == LStrip(RStrip(t))

\* a <b> cell as the device writes it: padded with spaces
Cell(t) == <<" ">> \o t \o <<" ">>

\* the status page with two channels showing the readings v1 and v2: the
\* outer table holding one table per channel, each with three <b> cells
\* (lines 91-92, 98)
StatusPage(v1, v2) ==
    [hasTable |-> TRUE,
     tables |-> << <<Cell(CH1), Cell(v1), Cell(degC)>>,
                   <<Cell(CH2), Cell(v2), Cell(degC)>> >>]

\* a page without any table: soup_object.find returns None (line 91)
NoTablePage == [hasTable |-> FALSE, tables |-> <<>>]

\* pages the device serves as its measurements change
Pages ==
    {StatusPage(Plus1p5, Minus2), StatusPage(Minus2, BURNOUT),
     StatusPage(Dashes, Plus1p5), NoTablePage}

\* lines 95-101: one list of stripped cell texts per channel table
channels_data(resp) ==
    [k \in 1..Len(resp.tables) |->
        [j \in 1..Len(resp.tables[k]) |-> get_text_strip(resp.tables[k][j])]]

ScrapeIdle ==
    /\ spc = "idle"
    /\ num = 0
    /\ response = NoTablePage
    /\ fetches = 0
    /\ i = 0
    /\ data_list = <<>>
    /\ served = <<>>

\* lines 81-87: the call, its one HTTP GET, the empty data_list
AppendCall ==
    /\ spc = "idle"
    /\ \E n \in 0..MaxNum : num' = n
    /\ response' = page
    /\ fetches' = 1
    /\ i' = 0
    /\ data_list' = <<>>
    /\ served' = <<>>
    /\ spc' = "loop"
    /\ UNCHANGED <<page, sessionVars, reshapeVars>>

\* lines 88-105: one iteration of the loop: parse the held response, append
\* the batch, sleep.  served notes the page the device serves at this poll.
AppendPoll ==
    /\ spc = "loop"
    /\ i < num
    /\ IF response.hasTable
       THEN /\ data_list' = Append(data_list, channels_data(response))
            /\ served' = Append(served, page)
            /\ i' = i + 1
            /\ spc' = "loop"
       ELSE \* table is None: table.findAll raises AttributeError (line 92)
            /\ spc' = "raised"
            /\ UNCHANGED <<data_list, served, i>>
    /\ UNCHANGED <<page, num, response, fetches, sessionVars, reshapeVars>>

\* line 114: return data_list
AppendReturn ==
    /\ spc = "loop"
    /\ i = num
    /\ spc' = "done"
    /\ UNCHANGED <<page, num, response, fetches, i, data_list, served,
                   sessionVars, reshapeVars>>

\* the device measures again and serves a new page; inside a call this
\* happens during the sleep that ends an iteration (line 105)
DeviceUpdate ==
    /\ spc = "idle" \/ (spc = "loop" /\ i >= 1)
    /\ \E p \in Pages \ {page} : page' = p
    /\ UNCHANGED <<spc, num, response, fetches, i, data_list, served,
                   sessionVars, reshapeVars>>

-----------------------------------------------------------------------------
(* The reshaper: add_channel_data_to_df and add_channel_data_to_dict        *)
(* (GL840.py:116-173).                                                     *)

\* the most cells (channels x polls) of one accumulation, and the most
\* channels and the most polls
MaxCells == 4

\* a parsed reading: the float num/den, or None
Missing == [kind |-> "None", num |-> 0, den |-> 1]
Float(n, d) == [kind |-> "float", num |-> n, den |-> d]

Digits == {"0", "1", "2", "3", "4", "5", "6", "7", "8", "9"}

DigitValue(c) ==
    CASE c = "0" -> 0 [] c = "1" -> 1 [] c = "2" -> 2 [] c = "3" -> 3
      [] c = "4" -> 4 [] c = "5" -> 5 [] c = "6" -> 6 [] c = "7" -> 7
      [] c = "8" -> 8 [] c = "9" -> 9

RECURSIVE DigitsValue(_)
\* the number a text of digits writes (0 for the empty text)
DigitsValue(t) ==
    IF t = <<>> THEN 0
    ELSE 10 * DigitsValue(SubSeq(t, 1, Len(t) - 1)) + DigitValue(t[Len(t)])

RECURSIVE Pow10(_)
Pow10(n) == IF n = 0 THEN 1 ELSE 10 * Pow10(n - 1)

RECURSIVE Reduce(_, _)
\* mant / 10^scale without trailing zeros: 1.50 and 1.5 are one float
Reduce(mant, scale) ==
    IF scale > 0 /\ mant % 10 = 0
    THEN Reduce(mant \div 10, scale - 1)
    ELSE Float(mant, Pow10(scale))

\* channel_reading.replace(' ', '') (lines 145, 169)
RemoveSpaces(t) == SelectSeq(t, LAMBDA c : c # " ")

\* float(text) for texts of signs, digits, points and letters other than
\* those of inf, nan and exponents: [sign] digits [. [digits]] or
\* [sign] . digits; anything else raises ValueError
float(t) ==
    LET signed == t # <<>> /\ Head(t) \in {"+", "-"}
        body == IF signed THEN Tail(t) ELSE t
        points == {k \in 1..Len(body) : body[k] = "."}
        point == IF points = {} THEN Len(body) + 1
                 ELSE CHOOSE k \in points : TRUE
        whole == SubSeq(body, 1, point - 1)
        frac == SubSeq(body, point + 1, Len(body))
        wellFormed ==
            /\ Cardinality(points) <= 1
            /\ \A k \in 1..Len(body) : body[k] \in Digits \cup {"."}
            /\ Len(whole) + Len(frac) >= 1
    IN  IF ~wellFormed THEN [kind |-> "ValueError", num |-> 0, den |-> 1]
        ELSE LET r == Reduce(DigitsValue(whole \o frac), Len(frac))
             IN  IF signed /\ Head(t) = "-" THEN Float(0 - r.num, r.den)
                 ELSE r

\* lines 143-147 and 168-171, mutated: the spaces are not removed
float_or_none_keep_spaces(text) ==
    IF float(text).kind = "ValueError" THEN Missing ELSE float(text)

\* lines 143-147 and 168-171: float(text.replace(' ', '')), None on
\* ValueError
float_or_none(text) ==
    LET v == float(RemoveSpaces(text))
    IN  IF v.kind = "ValueError" THEN Missing ELSE v

\* line 134: f"GRPH {channel_name} [{channel_unit}]"
column_name(name, unit) ==
    <<"G", "R", "P", "H", " ">> \o name \o <<" ", "[">> \o unit \o <<"]">>

\* the position of x in the sequence xs, 0 when it is not there
IndexOf(xs, x) ==
    IF \E k \in 1..Len(xs) : xs[k] = x
    THEN CHOOSE k \in 1..Len(xs) : xs[k] = x
    ELSE 0

\* df[column_name] = channel_readings (line 151), mutated: always a new
\* column
set_column_append(df, name, readings) ==
    [df EXCEPT !.columns = Append(df.columns, name),
               !.data = Append(df.data, readings)]

\* df[column_name] = channel_readings (line 151): a new column is added
\* last, an existing column of that name is replaced where it is
set_column(df, name, readings) ==
    LET at == IndexOf(df.columns, name)
    IN  IF at = 0
        THEN [df EXCEPT !.columns = Append(df.columns, name),
                        !.data = Append(df.data, readings)]
        ELSE [df EXCEPT !.data[at] = readings]

\* lines 136-149: the parsed readings of channel channel_ind, one per row
channel_readings(dl, channel_ind) ==
    [r \in 1..Len(dl) |-> float_or_none(dl[r][channel_ind][2])]

RECURSIVE df_loop(_, _, _)
\* lines 130-151: the loop over the channels of the first batch
df_loop(dl, channel_ind, df) ==
    IF channel_ind > Len(dl[1]) THEN df
    ELSE df_loop(dl, channel_ind + 1,
                 set_column(df,
                            column_name(dl[1][channel_ind][1],
                                        dl[1][channel_ind][3]),
                            channel_readings(dl, channel_ind)))

\* the result of a projection that prints "no data input" and returns None
NoneResult == [kind |-> "None"]

\* add_channel_data_to_df(data_list)
add_channel_data_to_df(dl) ==
    IF dl = <<>> THEN NoneResult
    ELSE IF \E r \in 1..Len(dl) : Len(dl[r]) < Len(dl[1])
    THEN [kind |-> "IndexError"]              \* line 140 on a short batch
    ELSE LET df == df_loop(dl, 1, [columns |-> <<>>, data |-> <<>>])
         IN  [kind |-> "df", columns |-> df.columns, data |-> df.data]

\* the rows of a DataFrame: the length of its columns, none without columns
RowCount(df) == IF df.data = <<>> THEN 0 ELSE Len(df.data[1])

\* data_dict[str(a_ch[0])] = _data (line 172): a new key is added last, an
\* existing key keeps its place and gets the new value
set_item(d, key, value) ==
    LET at == IndexOf(d.keys, key)
    IN  IF at = 0
        THEN [d EXCEPT !.keys = Append(d.keys, key),
                       !.vals = Append(d.vals, value)]
        ELSE [d EXCEPT !.vals[at] = value]

RECURSIVE dict_loop(_, _, _)
\* lines 167-172: the loop over the channels of one batch
dict_loop(batch, k, d) ==
    IF k > Len(batch) THEN d
    ELSE dict_loop(batch, k + 1,
                   set_item(d, batch[k][1], float_or_none(batch[k][2])))

\* add_channel_data_to_dict mutated: the first batch instead of the last
add_channel_data_to_dict_first(dl) ==
    IF dl = <<>> THEN NoneResult
    ELSE LET d == dict_loop(dl[1], 1, [keys |-> <<>>, vals |-> <<>>])
         IN  [kind |-> "dict", keys |-> d.keys, vals |-> d.vals]

\* add_channel_data_to_dict(data_list)
add_channel_data_to_dict(dl) ==
    IF dl = <<>> THEN NoneResult
    ELSE LET d == dict_loop(dl[Len(dl)], 1, [keys |-> <<>>, vals |-> <<>>])
         IN  [kind |-> "dict", keys |-> d.keys, vals |-> d.vals]

\* channel labels and units; "A [d" with unit "d" and "A" with unit "d [d"
\* format to the same column name
LabelA == <<"A">>
LabelAd == <<"A", " ", "[", "d">>
UnitD == <<"d">>
UnitDd == <<"d", " ", "[", "d">>

\* the (label, unit) pairs a channel may have
ChannelKinds == {<<LabelA, UnitD>>, <<LabelA, UnitDd>>, <<LabelAd, UnitD>>}

\* the raw value texts a channel may show
ValueTexts == {Plus1p5, BURNOUT, Minus2, Dashes}

\* the channel layouts of a device: up to MaxCells channels
Layouts == UNION {[1..c -> ChannelKinds] : c \in 0..MaxCells}

\* the poll batch of a device with layout lay showing the values vals: one
\* Reading [label, value, unit] per channel
Batch(lay, vals) ==
    [k \in 1..Len(lay) |-> <<lay[k][1], vals[k], lay[k][2]>>]

NoCall == [kind |-> "none"]

ReshapeIdle ==
    /\ layout = <<>>
    /\ acc = <<>>
    /\ result = NoCall

ReshapeInit ==
    /\ layout \in Layouts
    /\ acc = <<>>
    /\ result = NoCall

\* one more poll batch is accumulated (append_graphtec_readings produces one
\* batch per poll from the same device)
Poll ==
    /\ Len(acc) < MaxCells
    /\ Len(layout) * (Len(acc) + 1) <= MaxCells
    /\ \E vals \in [1..Len(layout) -> ValueTexts] :
        acc' = Append(acc, Batch(layout, vals))
    /\ result' = NoCall
    /\ UNCHANGED <<layout, sessionVars, scrapeVars>>

\* df = graphtec.add_channel_data_to_df(acc)
CallDf ==
    /\ result' = add_channel_data_to_df(acc)
    /\ UNCHANGED <<layout, acc, sessionVars, scrapeVars>>

\* d = graphtec.add_channel_data_to_dict(acc)
CallDict ==
    /\ result' = add_channel_data_to_dict(acc)
    /\ UNCHANGED <<layout, acc, sessionVars, scrapeVars>>

-----------------------------------------------------------------------------
(* The specifications.                                                     *)

Init == SessionInit /\ page = NoTablePage /\ ScrapeIdle /\ ReshapeIdle
Next == Construct \/ Connect \/ IdentifyDevice \/ Close
Spec == Init /\ [][Next]_vars

SessionIdle ==
    /\ phase = "new"
    /\ _my_instrument = None
    /\ _ident = IdentNone
    /\ _name_string = <<"G">>
    /\ connected = FALSE
    /\ opened = {}
    /\ nOpened = 0
    /\ call = Call("none", "none", NoReply, Session, None, "None")

InitScrape == SessionIdle /\ page \in Pages /\ ScrapeIdle /\ ReshapeIdle
NextScrape == AppendCall \/ AppendPoll \/ AppendReturn \/ DeviceUpdate
SpecScrape == InitScrape /\ [][NextScrape]_vars

InitReshape ==
    SessionIdle /\ page = NoTablePage /\ ScrapeIdle /\ ReshapeInit
NextReshape == Poll \/ CallDf \/ CallDict
SpecReshape == InitReshape /\ [][NextReshape]_vars

-----------------------------------------------------------------------------
(* The claims about the device session, checked under Spec.                *)

\* name occurs somewhere inside text: text = pre name post
HasSubstring(text, name) ==
    \E pre, post \in TextsUpTo(IdentChars, MaxIdentLen) :
        text = pre \o name \o post

\* the last call issued the identity query and identification failed: the
\* query raised, the reply was no string, or it lacks the expected name
IdentificationFailed ==
    /\ call.queried # None
    /\ \/ call.reply.kind \in {"VisaIOError", "other"}
       \/ /\ call.reply.kind = "str"
          /\ ~HasSubstring(call.reply.text, _name_string)

\* C1: whenever the resource opens and the reply to *IDN? contains the
\* expected name, connect() returns True without raising; a construction
\* then ends with connected = True.
C1_ConnectTrueOnMatch ==
    (/\ call.op \in {"construct", "connect"}
     /\ call.open = "ok"
     /\ call.reply.kind = "str"
     /\ HasSubstring(call.reply.text, _name_string))
    => /\ call.ret = "True"
       /\ call.op = "construct" => (phase = "live" /\ connected)

\* C1 witness: a connect() whose reply holds the name after other text
C1_Witness ==
    /\ call.op = "connect"
    /\ call.open = "ok"
    /\ call.reply.kind = "str"
    /\ Len(call.reply.text) > Len(_name_string)
    /\ SubSeq(call.reply.text, 1, Len(_name_string)) # _name_string
    /\ HasSubstring(call.reply.text, _name_string)
    /\ call.ret = "True"

\* C2: whenever the identity query fails or its reply lacks the expected
\* name, identification returns False without raising, and afterwards the
\* connected flag is false, the handle is None and the resource that was
\* queried is closed; in construction, connect() and identify_device().
C2_FailedIdentificationReleases ==
    (/\ call.op \in {"construct", "connect", "identify"}
     /\ IdentificationFailed)
    => /\ call.ret = "False"
       /\ ~connected
       /\ _my_instrument = None
       /\ call.queried \notin opened
       /\ call.op = "construct" => phase = "live"

\* C2 witness: a later connect() on a connected session gets a wrong identity
C2_Witness ==
    /\ call.op = "connect"
    /\ call.before.connected
    /\ call.reply.kind = "str"
    /\ IdentificationFailed
    /\ call.ret = "False"
    /\ _my_instrument = None

\* C3 as claimed: whenever opening the resource fails, connect() and the
\* construction raise; connect() returns False without raising only when
\* the resource was opened.
C3_OpenFailureIsFatal ==
    call.op \in {"construct", "connect"}
    => /\ call.open # "ok" => Raised(call.ret)
       /\ call.ret = "False" => call.open = "ok"

\* C3 amended: an OSError while opening is re-raised by connect() and by
\* the construction; a VisaIOError while opening makes connect() return
\* False without raising and leaves handle, identity and open resources as
\* they were; connect() returns False only then or when the opened
\* resource fails identification, and raises only on the OSError.
C3_OpenFailureByKind ==
    call.op \in {"construct", "connect"}
    => /\ call.open = "OSError"
           => /\ call.ret = "OSError"
              /\ call.op = "construct" => phase = "dead"
       /\ call.open = "VisaIOError"
           => /\ call.ret = "False"
              /\ _my_instrument = call.before.inst
              /\ _ident = call.before.ident
              /\ opened = call.before.opened
              /\ call.op = "construct" => (phase = "live" /\ ~connected)
              /\ call.op = "connect" => connected = call.before.connected
       /\ Raised(call.ret) => call.open = "OSError"
       /\ call.ret = "False"
           => \/ call.open = "VisaIOError"
              \/ call.open = "ok" /\ IdentificationFailed

\* C3 witness: a construction that cannot open the resource and goes on
C3_Witness ==
    /\ call.op = "construct"
    /\ call.open = "VisaIOError"
    /\ call.ret = "False"
    /\ phase = "live"

\* C8: close() is not idempotent: close() or identify_device() on a None
\* handle raises (AttributeError) and leaves handle, identity and the
\* connected flag as they were.
C8_NullHandleRaises ==
    (/\ call.op \in {"close", "identify"}
     /\ call.before.inst = None)
    => /\ call.ret = "AttributeError"
       /\ _my_instrument = call.before.inst
       /\ _ident = call.before.ident
       /\ connected = call.before.connected

\* C8 witness: a close() after the one resource ever opened was released
C8_Witness ==
    /\ call.op = "close"
    /\ call.before.inst = None
    /\ nOpened = 1
    /\ opened = {}
    /\ call.ret = "AttributeError"

\* C9 as claimed: connected is true only while the handle is not None.
C9_ConnectedOnlyWithHandle ==
    (phase = "live" /\ connected) => _my_instrument # None

\* C10 as claimed: every resource opened and not yet closed is the one the
\* handle references.
C10_OpenResourceIsTheHandle ==
    \A r \in opened : r = _my_instrument

-----------------------------------------------------------------------------
(* The claim about the scraper, checked under SpecScrape.                  *)

\* C4 as claimed: a call with num >= 1 polls that returns has issued num
\* HTTP fetches and returns num batches, batch k parsed from the page the
\* device served at poll k.
C4_FetchPerPoll ==
    (spc = "done" /\ num >= 1)
    => /\ fetches = num
       /\ Len(data_list) = num
       /\ \A k \in 1..Len(data_list) :
            data_list[k] = channels_data(served[k])

-----------------------------------------------------------------------------
(* The claims about the reshaper, checked under SpecReshape.               *)

\* what Python's float makes of the value texts once the spaces are gone
ExpectedValue(text) ==
    CASE text = Plus1p5 -> Float(15, 10)
      [] text = Minus2 -> Float(0 - 2, 1)
      [] text = BURNOUT -> Missing
      [] text = Dashes -> Missing

\* all batches have the channel count and the labels and units of the first
SameLayout(dl) ==
    \A r \in 1..Len(dl) :
        /\ Len(dl[r]) = Len(dl[1])
        /\ \A j \in 1..Len(dl[r]) :
            /\ Len(dl[r][j]) = 3
            /\ dl[r][j][1] = dl[1][j][1]
            /\ dl[r][j][3] = dl[1][j][3]

\* the column name of channel j
NameOf(dl, j) == column_name(dl[1][j][1], dl[1][j][3])

\* channel j is the last channel of its column name
LastOfName(dl, j) ==
    \A k \in (j + 1)..Len(dl[1]) : NameOf(dl, k) # NameOf(dl, j)

\* no two channels format to one column name
DistinctNames(dl) ==
    \A j, k \in 1..Len(dl[1]) : j # k => NameOf(dl, j) # NameOf(dl, k)

\* the sequence xs holds no element twice
NoRepeats(xs) == \A j, k \in 1..Len(xs) : j # k => xs[j] # xs[k]

C6_DictFromFinalBatch ==
    result.kind = "dict"
    => LET last == acc[Len(acc)]
       IN  /\ result = add_channel_data_to_dict(<<last>>)
           /\ NoRepeats(result.keys)
           /\ {result.keys[p] : p \in 1..Len(result.keys)}
                = {last[j][1] : j \in 1..Len(last)}
           /\ \A j \in 1..Len(last) :
                (\A k \in (j + 1)..Len(last) : last[k][1] # last[j][1])
                => result.vals[IndexOf(result.keys, last[j][1])]
                     = ExpectedValue(last[j][2])

\* C6 witness: a map of three polls whose first and last batch differ
C6_Witness ==
    /\ result.kind = "dict"
    /\ Len(acc) = 3
    /\ acc[1] # acc[3]
    /\ acc[2] # acc[3]
    /\ result.keys # <<>>

\* the value texts float() rejects once the spaces are gone
NonNumeric == {BURNOUT, Dashes}

\* C7: in both projections a cell whose raw text is non-numeric is the
\* missing-value marker, exactly those cells are, every other cell is the
\* number its text writes with the spaces removed, and no call raises.
C7_NonNumericIsMissing ==
    /\ result.kind \in {"none", "None", "df", "dict"}
    /\ (result.kind = "df" /\ SameLayout(acc))
        => \A j \in 1..Len(acc[1]) : \A r \in 1..Len(acc) :
            LastOfName(acc, j) =>
                LET cell == result.data[IndexOf(result.columns,
                                                 NameOf(acc, j))][r]
                    text == acc[r][j][2]
                IN  /\ (cell = Missing) = (text \in NonNumeric)
                    /\ text \notin NonNumeric
                        => (cell.kind = "float" /\ cell = ExpectedValue(text))
    /\ result.kind = "dict"
        => LET last == acc[Len(acc)]
           IN  \A j \in 1..Len(last) :
                (\A k \in (j + 1)..Len(last) : last[k][1] # last[j][1])
                => LET cell == result.vals[IndexOf(result.keys, last[j][1])]
                       text == last[j][2]
                   IN  /\ (cell = Missing) = (text \in NonNumeric)
                       /\ text \notin NonNumeric
                           => (cell.kind = "float"
                               /\ cell = ExpectedValue(text))

\* C7 witness: a table with BURNOUT in one cell of each row, beside a
\* number written with a space and one written without
C7_Witness ==
    /\ result.kind = "df"
    /\ Len(result.columns) = 2
    /\ Len(acc) = 2
    /\ acc[1][1][2] = Plus1p5
    /\ acc[1][2][2] = BURNOUT
    /\ acc[2][1][2] = BURNOUT
    /\ acc[2][2][2] = Minus2
    /\ result.data[1] = <<Float(15, 10), Missing>>
    /\ result.data[2] = <<Missing, Float(0 - 2, 1)>>

=============================================================================
